---- MODULE Spec2Model ----
(***************************************************************************)
(* A model of check_proxy_connectivity.py: the reachability probe, the     *)
(* OpenClash status checker, the start and restart controllers and the     *)
(* decision procedure of main().  Every HTTP request is one step whose     *)
(* outcome is chosen nondeterministically; every time.sleep() is recorded  *)
(* in the trace of the run.                                                *)
(***************************************************************************)
EXTENDS Integers, Sequences, FiniteSets, TLC

VARIABLES
    pc,                 \* position of the run in main() / restart_openclash()
    attempt,            \* main(): loop variable of the initial probe loop
    openclash_running,  \* main(): result of the first status check ("unset" before)
    restart_ok,         \* main(): value returned by restart_openclash() ("unset" before)
    sys_exit,           \* argument of the sys.exit() call made, -1 while none was made
    trace,              \* the requests and sleeps of the run so far, in order
    lastOutcome,        \* outcome of the most recent requests.get()
    erUrl,              \* execute_request: url
    erMax,              \* execute_request: max_retries
    erAttempt,          \* execute_request: loop variable attempt
    erCaller,           \* execute_request: the call site that is waiting for it
    erResult,           \* execute_request: returned value ("unset" before)
    resp                \* the response handed to a stand-alone status check

vars == <<pc, attempt, openclash_running, restart_ok, sys_exit, trace,
          lastOutcome, erUrl, erMax, erAttempt, erCaller, erResult, resp>>

-----------------------------------------------------------------------------
(* Configuration of the script. *)

MAX_RETRIES == 3
RETRY_INTERVAL == 30
START_SETTLE == 15
BACKOFF_STATUS == 3
BACKOFF_TIMEOUT == 3
BACKOFF_CONNECTION == 5
BACKOFF_REQUEST == 3
STOP_DRAIN == 5
RESTART_AGAIN_WAIT == 3
RESTART_AGAIN_RETRIES == 2
RESTART_SETTLE == 10
POST_RESTART_WAIT == 60
EXECUTE_DEFAULT_RETRIES == 3

(* Bounds of the model. *)
MaxRetriesArg == 4      \* largest max_retries given to a stand-alone execute_request
MaxFields == 2          \* largest number of members of a status payload

-----------------------------------------------------------------------------
(* What requests.get() can do: a response with status 200, a response with  *)
(* another status, requests.exceptions.Timeout (ReadTimeout), ConnectTimeout *)
(* (a Timeout and a ConnectionError at once), another ConnectionError,      *)
(* another RequestException, or an exception that is no RequestException.   *)

Outcomes ==
    {"200", "non200", "timeout", "conntimeout", "connerr", "reqerr", "unexpected"}

RequestErrors == {"timeout", "conntimeout", "connerr", "reqerr"}

GetEv(op, res) == [op |-> op, res |-> res, secs |-> 0]

SleepEv(n) == [op |-> "sleep", res |-> "-", secs |-> n]

-----------------------------------------------------------------------------
(* check_google_connectivity(): "T" / "F" for the boolean returned, "raise" *)
(* when the exception is not caught.                                        *)

(* Mutant: every response counts as reachable, whatever its status. *)
check_google_connectivity_any_response(o) ==
    IF o = "200" THEN "T"
    ELSE IF o = "non200" THEN "T"
    ELSE IF o \in RequestErrors THEN "F"
    ELSE "raise"

check_google_connectivity(o) ==
    IF o = "200" THEN "T"
    ELSE IF o = "non200" THEN "F"
    ELSE IF o \in RequestErrors THEN "F"
    ELSE "raise"

-----------------------------------------------------------------------------
(* Python values of a parsed JSON payload and Python's == on them.          *)

PyBool(b) == [ty |-> "bool", num |-> IF b THEN 10 ELSE 0, str |-> ""]

PyInt(n) == [ty |-> "int", num |-> 10 * n, str |-> ""]

PyFloatTenths(n) == [ty |-> "float", num |-> n, str |-> ""]

PyStr(s) == [ty |-> "str", num |-> 0, str |-> s]

PyNone == [ty |-> "None", num |-> 0, str |-> ""]

PyNumeric == {"bool", "int", "float"}

PyEq(a, b) ==
    IF a.ty \in PyNumeric /\ b.ty \in PyNumeric THEN a.num = b.num
    ELSE IF a.ty = "str" /\ b.ty = "str" THEN a.str = b.str
    ELSE a.ty = "None" /\ b.ty = "None"

PyIn(v, list) == \E i \in 1..Len(list) : PyEq(list[i], v)

(* Mutant: the fields are scanned in alphabetical order. *)
status_fields_alphabetical ==
    <<"active", "enabled", "running", "state", "status", "success">>

status_fields == <<"running", "status", "state", "enabled", "active", "success">>

active_values ==
    <<PyBool(TRUE), PyStr("running"), PyStr("active"), PyStr("enabled"),
      PyStr("up"), PyInt(1)>>

(* response.json() on an object: the members of the text, in their order,   *)
(* become a dict (a function from the keys present to their values).        *)
json_object(members) ==
    [k \in {members[i][1] : i \in 1..Len(members)} |->
        LET last == CHOOSE i \in 1..Len(members) :
                        /\ members[i][1] = k
                        /\ \A j \in (i+1)..Len(members) : members[j][1] # k
        IN  members[last][2]]

RECURSIVE scan_status_fields(_, _)
scan_status_fields(data, i) ==
    IF i > Len(status_fields) THEN "T"
    ELSE IF status_fields[i] \in DOMAIN data
         THEN IF PyIn(data[status_fields[i]], active_values) THEN "T" ELSE "F"
         ELSE scan_status_fields(data, i + 1)

(* Mutant: a 200 response whose body is no JSON object counts as not running. *)
check_openclash_status_pessimistic(r) ==
    IF r.outcome = "200"
    THEN IF r.fmt = "object" THEN scan_status_fields(json_object(r.members), 1)
         ELSE "F"
    ELSE IF r.outcome = "non200" THEN "F"
    ELSE IF r.outcome \in RequestErrors THEN "F"
    ELSE "raise"

check_openclash_status(r) ==
    IF r.outcome = "200"
    THEN IF r.fmt = "object" THEN scan_status_fields(json_object(r.members), 1)
         ELSE "T"
    ELSE IF r.outcome = "non200" THEN "F"
    ELSE IF r.outcome \in RequestErrors THEN "F"
    ELSE "raise"

(* The responses of the status endpoint the model draws from. *)
PayloadKeys == {"running", "status", "state", "enabled", "active", "success", "foo"}

PayloadValues ==
    {PyBool(TRUE), PyBool(FALSE), PyInt(1), PyInt(0), PyFloatTenths(10),
     PyStr("running"), PyStr("active"), PyStr("enabled"), PyStr("up"),
     PyStr("stopped"), PyStr("Running"), PyNone}

Members(n) ==
    UNION {{m \in [1..k -> PayloadKeys \X PayloadValues] :
                \A i, j \in 1..k : i # j => m[i][1] # m[j][1]} : k \in 0..n}

StatusResponses(n) ==
    {[outcome |-> "200", fmt |-> "object", members |-> m] : m \in Members(n)}
    \cup {[outcome |-> "200", fmt |-> f, members |-> <<>>] : f \in {"nonobject", "notjson"}}
    \cup {[outcome |-> o, fmt |-> "none", members |-> <<>>] : o \in Outcomes \ {"200"}}

NoResponse == [outcome |-> "none", fmt |-> "none", members |-> <<>>]

-----------------------------------------------------------------------------
(* start_openclash(): the value returned and the time slept. *)

(* Mutant: the settle sleep is taken whatever the status of the response. *)
start_openclash_always_settles(o) ==
    IF o = "200" THEN [ret |-> "T", slept |-> <<SleepEv(START_SETTLE)>>]
    ELSE IF o = "non200" THEN [ret |-> "F", slept |-> <<SleepEv(START_SETTLE)>>]
    ELSE IF o \in RequestErrors THEN [ret |-> "F", slept |-> <<>>]
    ELSE [ret |-> "raise", slept |-> <<>>]

(* Mutant: True is returned without waiting for the service to come up. *)
start_openclash_no_settle(o) ==
    IF o = "200" THEN [ret |-> "T", slept |-> <<>>]
    ELSE IF o = "non200" THEN [ret |-> "F", slept |-> <<>>]
    ELSE IF o \in RequestErrors THEN [ret |-> "F", slept |-> <<>>]
    ELSE [ret |-> "raise", slept |-> <<>>]

start_openclash(o) ==
    IF o = "200" THEN [ret |-> "T", slept |-> <<SleepEv(START_SETTLE)>>]
    ELSE IF o = "non200" THEN [ret |-> "F", slept |-> <<>>]
    ELSE IF o \in RequestErrors THEN [ret |-> "F", slept |-> <<>>]
    ELSE [ret |-> "raise", slept |-> <<>>]

-----------------------------------------------------------------------------
(* restart_openclash.execute_request(url, operation_name, max_retries).     *)

(* Mutant: every failure is followed by the same wait. *)
Backoff_uniform(o) == BACKOFF_STATUS

(* The except clauses are tried in order: Timeout, ConnectionError,         *)
(* RequestException; a ConnectTimeout is caught by the first.               *)
Backoff(o) ==
    IF o = "non200" THEN BACKOFF_STATUS
    ELSE IF o \in {"timeout", "conntimeout"} THEN BACKOFF_TIMEOUT
    ELSE IF o = "connerr" THEN BACKOFF_CONNECTION
    ELSE BACKOFF_REQUEST

(* One iteration of the loop: the value of the request, the sleep that      *)
(* follows it and how the loop goes on.                                     *)
execute_attempt(o, att, max) ==
    IF o = "200" THEN [res |-> "T", slept |-> <<>>, next |-> "return_true"]
    ELSE IF o = "unexpected" THEN [res |-> "raise", slept |-> <<>>, next |-> "raise"]
    ELSE [res   |-> "F",
          slept |-> IF att < max THEN <<SleepEv(Backoff(o))>> ELSE <<>>,
          next  |-> "continue"]

(* Mutant: range(1, max_retries + 2) - one attempt too many. *)
loop_continues_one_more(att, max) == att <= max + 1

(* Mutant: range(1, max_retries) - the last attempt is never made. *)
loop_continues_one_short(att, max) == att < max

(* range(1, max_retries + 1) still has a value for the loop variable. *)
loop_continues(att, max) == att <= max

ReturnSite(caller) ==
    IF caller = "stop" THEN "restart_after_stop"
    ELSE IF caller = "start" THEN "restart_after_start"
    ELSE IF caller = "again" THEN "restart_after_again"
    ELSE "exec_returned"

RaiseSite(caller) ==
    IF caller \in {"stop", "start", "again"} THEN "restart_except" ELSE "exec_raised"

execute_request ==
    /\ pc = "execute_request"
    /\ loop_continues(erAttempt, erMax)
    /\ \E o \in Outcomes :
        LET a == execute_attempt(o, erAttempt, erMax) IN
        /\ lastOutcome' = o
        /\ trace' = trace \o <<GetEv(erUrl, a.res)>> \o a.slept
        /\ erAttempt' = IF a.next = "continue" THEN erAttempt + 1 ELSE erAttempt
        /\ erResult' = IF a.next = "return_true" THEN "T" ELSE erResult
        /\ pc' = IF a.next = "continue" THEN "execute_request"
                 ELSE IF a.next = "raise" THEN RaiseSite(erCaller)
                 ELSE ReturnSite(erCaller)
    /\ UNCHANGED <<attempt, openclash_running, restart_ok, sys_exit,
                   erUrl, erMax, erCaller, resp>>

(* The loop ran out: the final failure is logged and False returned. *)
execute_request_exhausted ==
    /\ pc = "execute_request"
    /\ ~loop_continues(erAttempt, erMax)
    /\ erResult' = "F"
    /\ pc' = ReturnSite(erCaller)
    /\ UNCHANGED <<attempt, openclash_running, restart_ok, sys_exit, trace,
                   lastOutcome, erUrl, erMax, erAttempt, erCaller, resp>>

(* The call execute_request(url, name, max_retries) made at a call site. *)
CallExecute(url, max, caller) ==
    /\ erUrl' = url
    /\ erMax' = max
    /\ erAttempt' = 1
    /\ erCaller' = caller
    /\ erResult' = "unset"
    /\ pc' = "execute_request"

-----------------------------------------------------------------------------
(* restart_openclash(). *)

restart_begin ==
    /\ pc = "restart"
    /\ CallExecute("down", EXECUTE_DEFAULT_RETRIES, "stop")
    /\ UNCHANGED <<attempt, openclash_running, restart_ok, sys_exit, trace,
                   lastOutcome, resp>>

(* Mutant: the result of the stop sub-operation is ignored. *)
after_stop_ignore_failure(res) == "call_start"

(* What restart does when the stop sub-operation returned. *)
after_stop(res) == IF res = "T" THEN "call_start" ELSE "return_false"

restart_after_stop ==
    /\ pc = "restart_after_stop"
    /\ IF after_stop(erResult) = "call_start"
       THEN /\ trace' = Append(trace, SleepEv(STOP_DRAIN))
            /\ CallExecute("up", EXECUTE_DEFAULT_RETRIES, "start")
            /\ UNCHANGED restart_ok
       ELSE /\ restart_ok' = "F"
            /\ pc' = "restart_returned"
            /\ UNCHANGED <<trace, erUrl, erMax, erAttempt, erCaller, erResult>>
    /\ UNCHANGED <<attempt, openclash_running, sys_exit, lastOutcome, resp>>

(* What restart does when the first start sub-operation returned. *)
after_start(res) == IF res = "T" THEN "settle" ELSE "call_again"

restart_after_start ==
    /\ pc = "restart_after_start"
    /\ IF after_start(erResult) = "settle"
       THEN /\ trace' = Append(trace, SleepEv(RESTART_SETTLE))
            /\ restart_ok' = "T"
            /\ pc' = "restart_returned"
            /\ UNCHANGED <<erUrl, erMax, erAttempt, erCaller, erResult>>
       ELSE /\ trace' = Append(trace, SleepEv(RESTART_AGAIN_WAIT))
            /\ CallExecute("up", RESTART_AGAIN_RETRIES, "again")
            /\ UNCHANGED restart_ok
    /\ UNCHANGED <<attempt, openclash_running, sys_exit, lastOutcome, resp>>

(* Mutant: the result of the fallback start is ignored. *)
after_again_ignore_failure(res) == "settle"

(* What restart does when the fallback start sub-operation returned. *)
after_again(res) == IF res = "T" THEN "settle" ELSE "return_false"

restart_after_again ==
    /\ pc = "restart_after_again"
    /\ IF after_again(erResult) = "settle"
       THEN /\ trace' = Append(trace, SleepEv(RESTART_SETTLE))
            /\ restart_ok' = "T"
       ELSE /\ restart_ok' = "F"
            /\ UNCHANGED trace
    /\ pc' = "restart_returned"
    /\ UNCHANGED <<attempt, openclash_running, sys_exit, lastOutcome,
                   erUrl, erMax, erAttempt, erCaller, erResult, resp>>

(* except Exception: an error raised inside the sequence is reported as failure. *)
restart_except ==
    /\ pc = "restart_except"
    /\ restart_ok' = "F"
    /\ pc' = "restart_returned"
    /\ UNCHANGED <<attempt, openclash_running, sys_exit, trace, lastOutcome,
                   erUrl, erMax, erAttempt, erCaller, erResult, resp>>

-----------------------------------------------------------------------------
(* main(). *)

(* Mutant: a success is honoured only while another iteration remains. *)
probe_loop_next_no_exit_on_last(ret, att) ==
    IF ret = "raise" THEN "uncaught"
    ELSE IF att < MAX_RETRIES THEN (IF ret = "T" THEN "exit" ELSE "sleep_and_retry")
    ELSE "status"

(* Mutant: the loop gives up one iteration early. *)
probe_loop_next_one_short(ret, att) ==
    IF ret = "T" THEN "exit"
    ELSE IF ret = "raise" THEN "uncaught"
    ELSE IF att < MAX_RETRIES - 1 THEN "sleep_and_retry"
    ELSE "status"

(* The initial probe loop after one probe returned ret in iteration att. *)
probe_loop_next(ret, att) ==
    IF ret = "T" THEN "exit"
    ELSE IF ret = "raise" THEN "uncaught"
    ELSE IF att < MAX_RETRIES THEN "sleep_and_retry"
    ELSE "status"

(* Mutant: the wait is taken after every failed probe, the last included. *)
probe_loop_sleep_always(ret, att) ==
    IF ret = "F" THEN <<SleepEv(RETRY_INTERVAL)>> ELSE <<>>

(* The wait at the end of an iteration of the probe loop. *)
probe_loop_sleep(ret, att) ==
    IF ret = "F" /\ att < MAX_RETRIES THEN <<SleepEv(RETRY_INTERVAL)>> ELSE <<>>

main_probe_loop ==
    /\ pc = "probe_loop"
    /\ \E o \in Outcomes :
        LET ret == check_google_connectivity(o)
            nxt == probe_loop_next(ret, attempt) IN
        /\ lastOutcome' = o
        /\ trace' = trace \o <<GetEv("probe", ret)>> \o probe_loop_sleep(ret, attempt)
        /\ attempt' = IF nxt = "sleep_and_retry" THEN attempt + 1 ELSE attempt
        /\ sys_exit' = IF nxt = "exit" THEN 0 ELSE sys_exit
        /\ pc' = IF nxt = "exit" THEN "exited"
                 ELSE IF nxt = "uncaught" THEN "uncaught"
                 ELSE IF nxt = "sleep_and_retry" THEN "probe_loop"
                 ELSE "status"
    /\ UNCHANGED <<openclash_running, restart_ok, erUrl, erMax, erAttempt,
                   erCaller, erResult, resp>>

(* The branch main takes on the value of check_openclash_status(). *)
remediation(running) ==
    IF running = "raise" THEN "uncaught"
    ELSE IF running = "F" THEN "start"
    ELSE "restart"

main_status ==
    /\ pc = "status"
    /\ \E r \in StatusResponses(1) :
        LET ret == check_openclash_status(r) IN
        /\ lastOutcome' = r.outcome
        /\ trace' = Append(trace, GetEv("status", ret))
        /\ openclash_running' = IF ret = "raise" THEN openclash_running ELSE ret
        /\ pc' = remediation(ret)
    /\ UNCHANGED <<attempt, restart_ok, sys_exit, erUrl, erMax, erAttempt,
                   erCaller, erResult, resp>>

(* After start_openclash() returned ret. *)
after_start_openclash(ret) ==
    IF ret = "raise" THEN "uncaught"
    ELSE IF ret = "T" THEN "reprobe_after_start"
    ELSE "final_log"

main_start ==
    /\ pc = "start"
    /\ \E o \in Outcomes :
        LET s == start_openclash(o) IN
        /\ lastOutcome' = o
        /\ trace' = trace \o <<GetEv("up", s.ret)>> \o s.slept
        /\ pc' = after_start_openclash(s.ret)
    /\ UNCHANGED <<attempt, openclash_running, restart_ok, sys_exit, erUrl,
                   erMax, erAttempt, erCaller, erResult, resp>>

(* Mutant: a failed probe after start is followed by a final status check. *)
after_start_reprobe_final_status(ret) ==
    IF ret = "T" THEN "exited"
    ELSE IF ret = "raise" THEN "uncaught"
    ELSE "final_status"

(* Mutant: a failed probe after start escalates to a restart. *)
after_start_reprobe_escalates(ret) ==
    IF ret = "T" THEN "exited"
    ELSE IF ret = "raise" THEN "uncaught"
    ELSE "restart"

(* After the probe that follows a successful start returned ret. *)
after_start_reprobe(ret) ==
    IF ret = "T" THEN "exited"
    ELSE IF ret = "raise" THEN "uncaught"
    ELSE "final_log"

main_reprobe_after_start ==
    /\ pc = "reprobe_after_start"
    /\ \E o \in Outcomes :
        LET ret == check_google_connectivity(o) IN
        /\ lastOutcome' = o
        /\ trace' = Append(trace, GetEv("probe", ret))
        /\ pc' = after_start_reprobe(ret)
        /\ sys_exit' = IF after_start_reprobe(ret) = "exited" THEN 0 ELSE sys_exit
    /\ UNCHANGED <<attempt, openclash_running, restart_ok, erUrl, erMax,
                   erAttempt, erCaller, erResult, resp>>

(* Mutant: the probe is made whatever restart returned. *)
after_restart_openclash_always_probe(ok) == "reprobe_after_restart"

(* After restart_openclash() returned ok. *)
after_restart_openclash(ok) ==
    IF ok = "T" THEN "reprobe_after_restart" ELSE "final_log"

main_after_restart ==
    /\ pc = "restart_returned"
    /\ pc' = after_restart_openclash(restart_ok)
    /\ trace' = IF after_restart_openclash(restart_ok) = "reprobe_after_restart"
                THEN Append(trace, SleepEv(POST_RESTART_WAIT)) ELSE trace
    /\ UNCHANGED <<attempt, openclash_running, restart_ok, sys_exit, lastOutcome,
                   erUrl, erMax, erAttempt, erCaller, erResult, resp>>

(* After the probe that follows a successful restart returned ret. *)
after_restart_reprobe(ret) ==
    IF ret = "T" THEN "exited"
    ELSE IF ret = "raise" THEN "uncaught"
    ELSE "final_status"

main_reprobe_after_restart ==
    /\ pc = "reprobe_after_restart"
    /\ \E o \in Outcomes :
        LET ret == check_google_connectivity(o) IN
        /\ lastOutcome' = o
        /\ trace' = Append(trace, GetEv("probe", ret))
        /\ pc' = after_restart_reprobe(ret)
        /\ sys_exit' = IF after_restart_reprobe(ret) = "exited" THEN 0 ELSE sys_exit
    /\ UNCHANGED <<attempt, openclash_running, restart_ok, erUrl, erMax,
                   erAttempt, erCaller, erResult, resp>>

(* Mutant: a final status of not running leads to a start. *)
after_final_status_start(final_status) ==
    IF final_status = "raise" THEN "uncaught"
    ELSE IF final_status = "F" THEN "start"
    ELSE "final_log"

(* After the final status check returned final_status. *)
after_final_status(final_status) ==
    IF final_status = "raise" THEN "uncaught" ELSE "final_log"

main_final_status ==
    /\ pc = "final_status"
    /\ \E r \in StatusResponses(1) :
        LET ret == check_openclash_status(r) IN
        /\ lastOutcome' = r.outcome
        /\ trace' = Append(trace, GetEv("status", ret))
        /\ pc' = after_final_status(ret)
    /\ UNCHANGED <<attempt, openclash_running, restart_ok, sys_exit, erUrl,
                   erMax, erAttempt, erCaller, erResult, resp>>

(* Mutant: the failure paths end with sys.exit(1). *)
fall_through_exit_one == IF pc = "final_log" THEN 1 ELSE sys_exit

(* main() returns after the last log line without calling sys.exit(). *)
fall_through_exit == sys_exit

(* The last log line; main() returns and the interpreter ends. *)
main_final_log ==
    /\ pc = "final_log"
    /\ pc' = "end"
    /\ sys_exit' = fall_through_exit
    /\ UNCHANGED <<attempt, openclash_running, restart_ok, trace,
                   lastOutcome, erUrl, erMax, erAttempt, erCaller, erResult, resp>>

(* The exit status of the process. *)
exit_status ==
    IF pc = "uncaught" THEN 1
    ELSE IF sys_exit # -1 THEN sys_exit
    ELSE 0

-----------------------------------------------------------------------------
(* A run of the script. *)

Init ==
    /\ pc = "probe_loop"
    /\ attempt = 1
    /\ openclash_running = "unset"
    /\ restart_ok = "unset"
    /\ sys_exit = -1
    /\ trace = <<>>
    /\ lastOutcome = "none"
    /\ erUrl = "none"
    /\ erMax = 0
    /\ erAttempt = 0
    /\ erCaller = "none"
    /\ erResult = "unset"
    /\ resp = NoResponse

Next ==
    \/ main_probe_loop
    \/ main_status
    \/ main_start
    \/ main_reprobe_after_start
    \/ restart_begin
    \/ execute_request
    \/ execute_request_exhausted
    \/ restart_after_stop
    \/ restart_after_start
    \/ restart_after_again
    \/ restart_except
    \/ main_after_restart
    \/ main_reprobe_after_restart
    \/ main_final_status
    \/ main_final_log

Spec == Init /\ [][Next]_vars

(* The script is one sequential thread: every requests.get() returns or     *)
(* raises and every sleep ends, so a run that can take a step takes it.     *)
FairSpec == Init /\ [][Next]_vars /\ WF_vars(Next)

-----------------------------------------------------------------------------
(* execute_request(url, name, max_retries) on its own, for every url and    *)
(* every max_retries up to MaxRetriesArg.                                   *)

InitExec ==
    /\ pc = "execute_request"
    /\ attempt = 0
    /\ openclash_running = "unset"
    /\ restart_ok = "unset"
    /\ sys_exit = -1
    /\ trace = <<>>
    /\ lastOutcome = "none"
    /\ erUrl \in {"down", "up"}
    /\ erMax \in 0..MaxRetriesArg
    /\ erAttempt = 1
    /\ erCaller = "harness"
    /\ erResult = "unset"
    /\ resp = NoResponse

NextExec ==
    \/ execute_request
    \/ execute_request_exhausted

SpecExec == InitExec /\ [][NextExec]_vars

-----------------------------------------------------------------------------
(* check_openclash_status() on its own, for every response with a payload   *)
(* of up to MaxFields members.                                              *)

InitStatus ==
    /\ pc = "status_call"
    /\ attempt = 0
    /\ openclash_running = "unset"
    /\ restart_ok = "unset"
    /\ sys_exit = -1
    /\ trace = <<>>
    /\ lastOutcome = "none"
    /\ erUrl = "none"
    /\ erMax = 0
    /\ erAttempt = 0
    /\ erCaller = "none"
    /\ erResult = "unset"
    /\ resp \in StatusResponses(MaxFields)

status_call ==
    /\ pc = "status_call"
    /\ lastOutcome' = resp.outcome
    /\ trace' = Append(trace, GetEv("status", check_openclash_status(resp)))
    /\ openclash_running' = check_openclash_status(resp)
    /\ pc' = "status_returned"
    /\ UNCHANGED <<attempt, restart_ok, sys_exit, erUrl, erMax, erAttempt,
                   erCaller, erResult, resp>>

NextStatus == status_call

SpecStatus == InitStatus /\ [][NextStatus]_vars

-----------------------------------------------------------------------------
(* Reading the trace of a run. *)

Gets == SelectSeq(trace, LAMBDA e : e.op # "sleep")

Of(op) == SelectSeq(trace, LAMBDA e : e.op = op)

Count(op) == Len(Of(op))

Calls == [i \in 1..Len(Gets) |-> Gets[i].op]

Some(op, res) == \E i \in 1..Count(op) : Of(op)[i].res = res

All(op, res) == \A i \in 1..Count(op) : Of(op)[i].res = res

(* Position in the trace of the n-th request to op (0 when there is none). *)
PosOf(op, n) ==
    IF Count(op) < n THEN 0
    ELSE CHOOSE p \in 1..Len(trace) :
            /\ trace[p].op = op
            /\ Cardinality({q \in 1..p : trace[q].op = op}) = n

Terminated == pc \in {"exited", "end", "uncaught"}

InitialProbesFailed ==
    /\ Len(Gets) >= MAX_RETRIES
    /\ \A i \in 1..MAX_RETRIES : Gets[i].op = "probe" /\ Gets[i].res = "F"

-----------------------------------------------------------------------------
(* C1: for every k in 1..MAX_RETRIES, when the k-th probe is the first one  *)
(* to succeed the run has ended with sys.exit(0) after exactly k probes,    *)
(* no further step is possible, and no status, up or down request was made. *)
C1_FirstSuccessEndsRun ==
    \A k \in 1..MAX_RETRIES :
        ( /\ Count("probe") >= k
          /\ Of("probe")[k].res = "T"
          /\ \A i \in 1..(k-1) : Of("probe")[i].res = "F" )
        =>
        ( /\ pc = "exited"
          /\ sys_exit = 0
          /\ exit_status = 0
          /\ ~ENABLED Next
          /\ Count("probe") = k
          /\ Len(Gets) = k
          /\ Count("status") = 0 /\ Count("up") = 0 /\ Count("down") = 0 )

(* The third probe is the first to succeed. *)
C1_Witness ==
    /\ pc = "exited"
    /\ Count("probe") = 3
    /\ Of("probe")[3].res = "T"
    /\ Of("probe")[1].res = "F" /\ Of("probe")[2].res = "F"

-----------------------------------------------------------------------------
(* C2: a status, up or down request has been issued only if the first       *)
(* MAX_RETRIES requests of the run were probes that all failed; the status  *)
(* check is then the next request, and before every up or down request the  *)
(* status endpoint has been queried exactly once.                           *)
C2_ControlOnlyAfterFailedProbes ==
    /\ (Count("status") + Count("up") + Count("down") > 0) =>
            /\ InitialProbesFailed
            /\ Gets[MAX_RETRIES + 1].op = "status"
    /\ \A i \in 1..Len(Gets) :
            Gets[i].op \in {"up", "down"} =>
                Cardinality({j \in 1..(i-1) : Gets[j].op = "status"}) = 1

C2_Witness ==
    /\ Count("down") >= 1
    /\ Count("up") >= 1
    /\ Count("status") = 1
    /\ pc = "end"

-----------------------------------------------------------------------------
(* C3: when the three initial probes failed and the status check reported   *)
(* not running, no down request is ever made and at most one up request,    *)
(* exactly one once the run has ended; after an accepted start exactly one  *)
(* more probe is made; if it succeeds the run ends with sys.exit(0) and the *)
(* requests were probe, probe, probe, status, up, probe; if it fails the    *)
(* run goes to the final log with no further request.                       *)
C3_StartBranch ==
    (openclash_running = "F") =>
        /\ InitialProbesFailed
        /\ Count("down") = 0
        /\ Count("up") <= 1
        /\ Count("status") = 1
        /\ Count("probe") <= MAX_RETRIES + 1
        /\ (Terminated \/ pc = "final_log") => Count("up") = 1
        /\ Count("probe") = MAX_RETRIES + 1 => Some("up", "T")
        /\ Some("up", "T") =>
            /\ pc \in {"reprobe_after_start", "exited", "uncaught", "final_log", "end"}
            /\ pc # "reprobe_after_start" => Count("probe") = MAX_RETRIES + 1
            /\ Count("probe") = MAX_RETRIES + 1 =>
                /\ Calls = <<"probe", "probe", "probe", "status", "up", "probe">>
                /\ Gets[6].res = "T" => (pc = "exited" /\ sys_exit = 0 /\ ~ENABLED Next)
                /\ Gets[6].res = "F" => (pc \in {"final_log", "end"} /\ sys_exit = -1)

C3_Witness ==
    /\ openclash_running = "F"
    /\ pc = "exited"
    /\ Calls = <<"probe", "probe", "probe", "status", "up", "probe">>
    /\ Gets[5].res = "T"
    /\ Gets[6].res = "T"

-----------------------------------------------------------------------------
(* C4: when the three initial probes failed and the status check reported   *)
(* running, the first control request is a down request; after a successful *)
(* restart the run sleeps POST_RESTART_WAIT and probes exactly once; a      *)
(* successful probe ends the run with sys.exit(0); a failed one is followed *)
(* by exactly one more status check, after which, whatever it returned, no  *)
(* request is made and the run goes to the final log with no exit code set. *)
C4_RestartBranch ==
    (openclash_running = "T") =>
        /\ InitialProbesFailed
        /\ Len(Gets) >= MAX_RETRIES + 2 => Gets[MAX_RETRIES + 2].op = "down"
        /\ \A i \in 1..Len(Gets) :
                Gets[i].op = "up" => \E j \in 1..(i-1) : Gets[j].op = "down"
        /\ (Terminated \/ pc = "final_log") => Count("down") >= 1
        /\ Count("probe") <= MAX_RETRIES + 1
        /\ Count("status") <= 2
        /\ Count("probe") = MAX_RETRIES + 1 =>
            /\ restart_ok = "T"
            /\ trace[PosOf("probe", MAX_RETRIES + 1) - 1] = SleepEv(POST_RESTART_WAIT)
            /\ Cardinality({p \in 1..Len(trace) : trace[p] = SleepEv(POST_RESTART_WAIT)}) = 1
            /\ Of("probe")[MAX_RETRIES + 1].res = "T" =>
                    (pc = "exited" /\ sys_exit = 0 /\ Count("status") = 1 /\ ~ENABLED Next)
            /\ Of("probe")[MAX_RETRIES + 1].res = "F" =>
                    /\ pc \in {"final_status", "uncaught", "final_log", "end"}
                    /\ pc = "final_status" => Count("status") = 1
                    /\ pc \in {"final_log", "end"} =>
                            /\ Count("status") = 2
                            /\ Gets[Len(Gets)].op = "status"
                            /\ Gets[Len(Gets)].res \in {"T", "F"}
                            /\ sys_exit = -1
        /\ (restart_ok = "T" /\ pc \in {"exited", "final_log", "end"}) =>
                Count("probe") = MAX_RETRIES + 1
        /\ Count("status") = 2 => Count("probe") = MAX_RETRIES + 1

(* The re-probe failed and the second status check reported not running. *)
C4_Witness ==
    /\ openclash_running = "T"
    /\ pc = "end"
    /\ Count("status") = 2
    /\ Of("status")[2].res = "F"
    /\ Count("probe") = 4

-----------------------------------------------------------------------------
(* C5: once start_openclash() or restart_openclash() has returned False the *)
(* run has made exactly MAX_RETRIES probes and one status check, and makes  *)
(* no further request before (and after) the final log.                     *)
StartFailed == openclash_running = "F" /\ Some("up", "F")

RestartFailed == restart_ok = "F"

C5_FailedRemediationSkipsProbing ==
    (StartFailed \/ RestartFailed) =>
        /\ Count("probe") = MAX_RETRIES
        /\ Count("status") = 1
        /\ pc \in {"restart_returned", "final_log", "end"}
        /\ sys_exit = -1

C5_Witness ==
    /\ RestartFailed
    /\ Count("up") = 5
    /\ pc = "end"

-----------------------------------------------------------------------------
(* C6: sys.exit() is only ever called with 0; it has been called exactly    *)
(* when a probe succeeded; every run that reaches the final log (a failed   *)
(* re-probe, a failed start, a failed restart) has called no sys.exit() at  *)
(* all, so its exit status is 0 like that of a successful run.              *)
C6_NoNonZeroExit ==
    /\ sys_exit \in {-1, 0}
    /\ (sys_exit = 0) <=> (pc = "exited")
    /\ (pc = "exited") <=> Some("probe", "T")
    /\ pc \in {"final_log", "end"} =>
            /\ sys_exit = -1
            /\ ~Some("probe", "T")
            /\ \/ Of("probe")[Count("probe")].res = "F" /\ Count("probe") = MAX_RETRIES + 1
               \/ StartFailed
               \/ RestartFailed
    /\ pc \in {"exited", "end"} => exit_status = 0

C6_Witness ==
    /\ pc = "end"
    /\ StartFailed
    /\ exit_status = 0

-----------------------------------------------------------------------------
(* C7: execute_request(url, name, max_retries = N) that returned False      *)
(* issued exactly N requests, all failed; one that returned True issued     *)
(* exactly k <= N requests, the k-th the first with status 200; and while   *)
(* every attempt so far failed with a non-200 status or a request error, at *)
(* most N requests were issued and after the N-th only the return of False  *)
(* is possible.                                                             *)
C7_ExactlyNAttempts ==
    /\ (pc = "exec_returned" /\ erResult = "F") =>
            /\ Count(erUrl) = erMax
            /\ Len(Gets) = erMax
            /\ All(erUrl, "F")
    /\ (pc = "exec_returned" /\ erResult = "T") =>
            /\ Count(erUrl) = erAttempt
            /\ Len(Gets) = erAttempt
            /\ erAttempt <= erMax
            /\ Of(erUrl)[erAttempt].res = "T"
            /\ \A i \in 1..(erAttempt - 1) : Of(erUrl)[i].res = "F"
    /\ All(erUrl, "F") =>
            /\ Count(erUrl) <= erMax
            /\ erResult # "T"
            /\ pc \in {"execute_request", "exec_returned"}
            /\ Count(erUrl) < erMax => (pc = "execute_request" /\ ENABLED execute_request)
            /\ (Count(erUrl) = erMax /\ pc = "execute_request") =>
                    (~ENABLED execute_request /\ ENABLED execute_request_exhausted)
    /\ (Count(erUrl) >= 1 /\ Of(erUrl)[Count(erUrl)].res = "T") =>
            (pc = "exec_returned" /\ erResult = "T")

(* Three attempts of three failed. *)
C7_Witness ==
    /\ pc = "exec_returned"
    /\ erResult = "F"
    /\ erMax = 3
    /\ Count(erUrl) = 3

-----------------------------------------------------------------------------
(* C8: in restart, once all EXECUTE_DEFAULT_RETRIES down requests have      *)
(* failed, restart returns False and never issues an up request; and every  *)
(* up request of restart comes after a down request that returned 200.      *)
StopFailed ==
    /\ openclash_running = "T"
    /\ Count("down") = EXECUTE_DEFAULT_RETRIES
    /\ All("down", "F")

C8_NoStartAfterFailedStop ==
    /\ StopFailed =>
            /\ Count("up") = 0
            /\ restart_ok # "T"
            /\ pc \in {"execute_request", "restart_after_stop", "restart_returned",
                       "final_log", "end"}
            /\ pc \in {"restart_returned", "final_log", "end"} => restart_ok = "F"
    /\ openclash_running = "T" =>
            \A i \in 1..Len(Gets) :
                Gets[i].op = "up" =>
                    \E j \in 1..(i-1) : Gets[j].op = "down" /\ Gets[j].res = "T"

C8_Witness ==
    /\ StopFailed
    /\ restart_ok = "F"
    /\ Count("up") = 0
    /\ pc = "end"

-----------------------------------------------------------------------------
(* C9: restart after an accepted stop. *)
DownAccepted == openclash_running = "T" /\ Some("down", "T")

RestartReturned == restart_ok # "unset"

AllStartsFailed ==
    /\ Count("up") = EXECUTE_DEFAULT_RETRIES + RESTART_AGAIN_RETRIES
    /\ All("up", "F")

(* The part of the claim about the order of the requests: at most 3 + 2 up  *)
(* requests; a fourth one only after three failed ones and a sleep of       *)
(* RESTART_AGAIN_WAIT that directly follows the third; an accepted up is    *)
(* the last one; the accepted down is the last down; success is reported    *)
(* iff an up request returned 200.                                          *)
StartAttemptsShape ==
    /\ Count("up") <= EXECUTE_DEFAULT_RETRIES + RESTART_AGAIN_RETRIES
    /\ Count("up") > EXECUTE_DEFAULT_RETRIES =>
            /\ \A i \in 1..EXECUTE_DEFAULT_RETRIES : Of("up")[i].res = "F"
            /\ trace[PosOf("up", EXECUTE_DEFAULT_RETRIES + 1) - 1]
                    = SleepEv(RESTART_AGAIN_WAIT)
            /\ PosOf("up", EXECUTE_DEFAULT_RETRIES + 1) - 2
                    = PosOf("up", EXECUTE_DEFAULT_RETRIES)
    /\ \A i \in 1..Count("up") : Of("up")[i].res # "F" => i = Count("up")
    /\ \A i \in 1..Count("down") : Of("down")[i].res = "T" => i = Count("down")
    /\ PosOf("down", Count("down")) < PosOf("up", 1) \/ Count("up") = 0
    /\ RestartReturned => (restart_ok = "T" <=> Some("up", "T"))
    /\ Some("up", "T") =>
            (restart_ok = "T" \/ pc \in {"restart_after_start", "restart_after_again"})
    /\ AllStartsFailed =>
            (restart_ok = "F" \/ pc \in {"execute_request", "restart_after_again"})

(* C9 as claimed: ... and restart reports failure exactly when all five up  *)
(* requests failed.                                                         *)
C9_FailureOnlyWhenAllFiveFail ==
    DownAccepted =>
        /\ StartAttemptsShape
        /\ RestartReturned => (restart_ok = "F" <=> AllStartsFailed)

(* C9 as amended: after an accepted stop, start is tried with up to 3       *)
(* attempts and, only if all 3 fail, once more with up to 2 attempts after  *)
(* a 3-unit wait; restart reports success iff one of these at most 5 up     *)
(* requests returns 200, and reports failure exactly when all 5 fail or an  *)
(* up request raises an error that is no request error.  No down request    *)
(* follows the accepted one.                                                *)
C9_FailureWhenAllFailOrRaise ==
    DownAccepted =>
        /\ StartAttemptsShape
        /\ RestartReturned =>
                (restart_ok = "F" <=> (AllStartsFailed \/ Some("up", "raise")))
        /\ Some("up", "raise") => (restart_ok = "F" \/ pc = "restart_except")

(* All five up requests failed after an accepted stop. *)
C9_Witness ==
    /\ DownAccepted
    /\ AllStartsFailed
    /\ restart_ok = "F"
    /\ pc = "end"

-----------------------------------------------------------------------------
(* C10: for a 200 response whose body is a JSON object with at least one    *)
(* recognized field, the value returned is decided by the member whose name *)
(* comes first in running, status, state, enabled, active, success, and     *)
(* by it alone; the same members in another order give the same value.      *)
PriorityOrder == <<"running", "status", "state", "enabled", "active", "success">>

MemberNames(m) == {m[i][1] : i \in 1..Len(m)}

MemberValue(m, name) == m[CHOOSE i \in 1..Len(m) : m[i][1] = name][2]

Deciding(m) ==
    PriorityOrder[CHOOSE i \in 1..Len(PriorityOrder) :
                    /\ PriorityOrder[i] \in MemberNames(m)
                    /\ \A j \in 1..(i-1) : PriorityOrder[j] \notin MemberNames(m)]

Reorderings(m) ==
    {[i \in 1..Len(m) |-> m[f[i]]] :
        f \in {g \in [1..Len(m) -> 1..Len(m)] : \A a, b \in 1..Len(m) : a # b => g[a] # g[b]}}

C10_FirstPresentFieldDecides ==
    ( /\ pc = "status_returned"
      /\ resp.outcome = "200"
      /\ resp.fmt = "object"
      /\ \E i \in 1..Len(PriorityOrder) : PriorityOrder[i] \in MemberNames(resp.members) )
    =>
    LET m == resp.members
        d == Deciding(m)
    IN  /\ openclash_running \in {"T", "F"}
        /\ openclash_running = "T" <=> PyIn(MemberValue(m, d), active_values)
        /\ \A m2 \in Reorderings(m) :
                check_openclash_status([resp EXCEPT !.members = m2]) = openclash_running

(* {"status": "up", "running": 0} reports not running. *)
C10_Witness ==
    /\ pc = "status_returned"
    /\ resp.outcome = "200"
    /\ resp.fmt = "object"
    /\ resp.members = << <<"status", PyStr("up")>>, <<"running", PyInt(0)>> >>
    /\ openclash_running = "F"

-----------------------------------------------------------------------------
(* C11: whenever the status checker returns, it returns True exactly when   *)
(* the status is 200 and either the deciding recognized field holds true,   *)
(* "running", "active", "enabled", "up" or the number 1, or the JSON object *)
(* has no recognized field, or the body is JSON but no object, or the body  *)
(* is no JSON; it returns False for a deciding field with any other value   *)
(* ("stopped", false, 0, null, "Running", ...), for a non-200 status and    *)
(* for a timeout, a connection error or another request error.              *)
SentinelValue(v) ==
    \/ v.ty = "bool" /\ v.num = 10
    \/ v.ty = "str" /\ v.str \in {"running", "active", "enabled", "up"}
    \/ v.ty \in {"int", "float"} /\ v.num = 10

HasRecognized(m) == \E i \in 1..Len(PriorityOrder) : PriorityOrder[i] \in MemberNames(m)

RunningCase(r) ==
    /\ r.outcome = "200"
    /\ \/ r.fmt = "notjson"
       \/ r.fmt = "nonobject"
       \/ r.fmt = "object" /\ ~HasRecognized(r.members)
       \/ /\ r.fmt = "object"
          /\ HasRecognized(r.members)
          /\ SentinelValue(MemberValue(r.members, Deciding(r.members)))

C11_RunningExactlyWhen ==
    (pc = "status_returned" /\ resp.outcome # "unexpected") =>
        /\ openclash_running \in {"T", "F"}
        /\ openclash_running = "T" <=> RunningCase(resp)
        /\ resp.outcome \in {"non200", "timeout", "conntimeout", "connerr", "reqerr"} =>
                openclash_running = "F"
        /\ ( /\ resp.outcome = "200" /\ resp.fmt = "object" /\ HasRecognized(resp.members)
             /\ MemberValue(resp.members, Deciding(resp.members))
                    \in {PyStr("stopped"), PyBool(FALSE), PyInt(0), PyNone, PyStr("Running")} )
           => openclash_running = "F"

(* {"foo": ...}: a 200 object without a recognized field reports running. *)
C11_Witness ==
    /\ pc = "status_returned"
    /\ resp.outcome = "200"
    /\ resp.fmt = "object"
    /\ resp.members = << <<"foo", PyStr("stopped")>> >>
    /\ openclash_running = "T"

-----------------------------------------------------------------------------
(* C12: every call of the reachability probe issues exactly one GET; it     *)
(* returns True iff the response has status 200 and returns the same False  *)
(* for a non-200 status, a timeout, a connection error and any other        *)
(* request error, none of which reaches the caller as an exception.         *)
LastGet == Gets[Len(Gets)]

AtProbe == pc \in {"probe_loop", "reprobe_after_start", "reprobe_after_restart"}

ProbeResultUniform ==
    (Len(Gets) > 0 /\ LastGet.op = "probe") =>
        /\ LastGet.res = "T" <=> lastOutcome = "200"
        /\ lastOutcome \in {"non200", "timeout", "conntimeout", "connerr", "reqerr"} =>
                (LastGet.res = "F" /\ pc # "uncaught")
        /\ LastGet.res = "raise" <=> lastOutcome = "unexpected"

ProbeIssuesOneGet ==
    AtProbe =>
        /\ Len(Gets') = Len(Gets) + 1
        /\ Gets'[Len(Gets')].op = "probe"
        /\ \A i \in 1..Len(Gets) : Gets'[i] = Gets[i]

C12_ProbeBooleanOnly == [](ProbeResultUniform) /\ [][ProbeIssuesOneGet]_vars

(* The probe after a restart ended in a connection error and returned False. *)
C12_Witness ==
    /\ pc = "final_status"
    /\ LastGet.op = "probe"
    /\ LastGet.res = "F"
    /\ lastOutcome = "connerr"

-----------------------------------------------------------------------------
(* C13: a call of start_openclash() issues exactly one up request; on 200   *)
(* it sleeps 15 and returns True; on another status or a request error it   *)
(* returns False at once, with no sleep and no second up request.           *)
Added == SubSeq(trace', Len(trace) + 1, Len(trace'))

StartCallStep ==
    pc = "start" =>
        /\ lastOutcome' = "200" =>
                (Added = <<GetEv("up", "T"), SleepEv(15)>> /\ pc' = "reprobe_after_start")
        /\ lastOutcome' \in {"non200", "timeout", "conntimeout", "connerr", "reqerr"} =>
                (Added = <<GetEv("up", "F")>> /\ pc' = "final_log")
        /\ Len(SelectSeq(Added, LAMBDA e : e.op = "up")) = 1

StartCallOnce ==
    openclash_running = "F" =>
        /\ Count("up") <= 1
        /\ Some("up", "T") <=> (\E p \in 1..Len(trace) : trace[p] = SleepEv(15))
        /\ Some("up", "F") => (\A p \in 1..Len(trace) : trace[p].op = "sleep" => trace[p].secs = 30)

C13_StartSingleRequest == [](StartCallOnce) /\ [][StartCallStep]_vars

(* The up request timed out: start returned False without a sleep. *)
C13_Witness ==
    /\ pc = "final_log"
    /\ openclash_running = "F"
    /\ LastGet = GetEv("up", "F")
    /\ trace[Len(trace)] = LastGet
    /\ lastOutcome = "timeout"

-----------------------------------------------------------------------------
(* C14: no operation called by main() lets an error through: whatever the   *)
(* HTTP call does, the probe, the status check, start and restart return a  *)
(* boolean, so a run that has ended has reached sys.exit(0) or the final    *)
(* log.                                                                     *)
C14_NothingRaisedToMain ==
    /\ pc # "uncaught"
    /\ \A i \in 1..Len(Gets) : Gets[i].op \in {"probe", "status"} => Gets[i].res \in {"T", "F"}
    /\ Terminated => pc \in {"exited", "end"}

-----------------------------------------------------------------------------
(* C15: in execute_request a failed attempt is followed by a wait only when *)
(* attempt < max_retries: 3 after a timeout, 5 after a connection error, 3  *)
(* after a non-200 status or another request error; a 200 and the last      *)
(* failed attempt are followed by none, so N >= 1 failed attempts incur     *)
(* exactly N - 1 waits.                                                     *)
WaitAfter(o) ==
    IF o \in {"timeout", "conntimeout"} THEN 3
    ELSE IF o = "connerr" THEN 5
    ELSE 3

AttemptStep ==
    (pc = "execute_request" /\ erAttempt <= erMax) =>
        /\ lastOutcome' = "200" => Added = <<GetEv(erUrl, "T")>>
        /\ lastOutcome' \in {"non200", "timeout", "conntimeout", "connerr", "reqerr"} =>
                Added = IF erAttempt < erMax
                        THEN <<GetEv(erUrl, "F"), SleepEv(WaitAfter(lastOutcome'))>>
                        ELSE <<GetEv(erUrl, "F")>>

WaitsOfFailedCall ==
    /\ (pc = "exec_returned" /\ erResult = "F" /\ erMax >= 1) =>
            /\ Count("sleep") = erMax - 1
            /\ trace[Len(trace)].op # "sleep"
    /\ (pc = "exec_returned" /\ erResult = "T") =>
            /\ Count("sleep") = erAttempt - 1
            /\ trace[Len(trace)].op # "sleep"
    /\ \A p \in 1..Len(trace) : trace[p].op = "sleep" => trace[p].secs \in {3, 5}

C15_BackoffByFailureKind == [](WaitsOfFailedCall) /\ [][AttemptStep]_vars

(* Three failed attempts, the first a connection error: waits of 5 and 3. *)
C15_Witness ==
    /\ pc = "exec_returned"
    /\ erResult = "F"
    /\ erMax = 3
    /\ trace = <<GetEv(erUrl, "F"), SleepEv(5), GetEv(erUrl, "F"), SleepEv(3),
                 GetEv(erUrl, "F")>>

-----------------------------------------------------------------------------
(* C16: in the initial probe loop a wait of 30 follows a failed probe only  *)
(* when another initial probe remains: three failed probes are separated by *)
(* exactly two waits, 60 in total, and the status check directly follows    *)
(* the third failed probe.                                                  *)
RECURSIVE TotalSecs(_)
TotalSecs(seq) == IF seq = <<>> THEN 0 ELSE Head(seq).secs + TotalSecs(Tail(seq))

C16_WaitsBetweenInitialProbes ==
    /\ pc = "probe_loop" =>
            /\ Count("sleep") = attempt - 1
            /\ Count("probe") = attempt - 1
            /\ TotalSecs(trace) = 30 * (attempt - 1)
            /\ attempt > 1 => trace[Len(trace)] = SleepEv(30)
    /\ (pc = "exited" /\ Count("status") = 0) =>
            /\ Count("sleep") = Count("probe") - 1
            /\ trace[Len(trace)] = GetEv("probe", "T")
    /\ InitialProbesFailed =>
            /\ SubSeq(trace, 1, 5) = <<GetEv("probe", "F"), SleepEv(30), GetEv("probe", "F"),
                                       SleepEv(30), GetEv("probe", "F")>>
            /\ TotalSecs(SubSeq(trace, 1, 5)) = 60
            /\ pc = "status" => Len(trace) = 5
            /\ Len(trace) >= 6 => trace[6].op = "status"

(* The status check has just followed the third failed probe. *)
C16_Witness ==
    /\ pc = "start"
    /\ Len(trace) = 6
    /\ trace[5] = GetEv("probe", "F")
    /\ trace[6] = GetEv("status", "F")
    /\ TotalSecs(trace) = 60

-----------------------------------------------------------------------------
(* C17: on the restart branch the accepted down request and the first up    *)
(* request are separated by a wait of at least 5 and by nothing else, and   *)
(* the accepted up request and the re-probe by waits of 10 and 60, 70 in    *)
(* all; on the start branch the accepted up request and the re-probe are    *)
(* separated by a wait of exactly 15.                                       *)
Between(p, q) == SubSeq(trace, p + 1, q - 1)

ReProbed == Count("probe") = MAX_RETRIES + 1

C17_SettleBeforeReprobe ==
    /\ (openclash_running = "T" /\ Count("up") >= 1) =>
            LET gap == Between(PosOf("down", Count("down")), PosOf("up", 1)) IN
            /\ Of("down")[Count("down")].res = "T"
            /\ \A i \in 1..Len(gap) : gap[i].op = "sleep"
            /\ TotalSecs(gap) >= 5
    /\ (openclash_running = "T" /\ ReProbed) =>
            LET gap == Between(PosOf("up", Count("up")), PosOf("probe", MAX_RETRIES + 1)) IN
            /\ Of("up")[Count("up")].res = "T"
            /\ gap = <<SleepEv(10), SleepEv(60)>>
            /\ TotalSecs(gap) = 70
    /\ (openclash_running = "F" /\ ReProbed) =>
            LET gap == Between(PosOf("up", 1), PosOf("probe", MAX_RETRIES + 1)) IN
            /\ Of("up")[1].res = "T"
            /\ gap = <<SleepEv(15)>>
            /\ TotalSecs(gap) = 15
    /\ ReProbed => openclash_running \in {"T", "F"}

(* The fallback start was accepted and the re-probe made. *)
C17_Witness ==
    /\ openclash_running = "T"
    /\ ReProbed
    /\ Count("up") = 4
    /\ pc = "exited"

-----------------------------------------------------------------------------
(* C18: whatever the endpoints answer, a run ends, and it never makes more  *)
(* than 4 probes, 2 status checks, 3 down requests and 5 up requests, 14    *)
(* requests in all; on the start branch at most 6 in all.                   *)
RequestBounds ==
    /\ Count("probe") <= 4
    /\ Count("status") <= 2
    /\ Count("down") <= 3
    /\ Count("up") <= 5
    /\ Len(Gets) <= 14
    /\ openclash_running = "F" => Len(Gets) <= 6

C18_TerminatesWithinBounds == [](RequestBounds) /\ <>Terminated

(* The longest run: 14 requests. *)
C18_Witness ==
    /\ pc = "end"
    /\ Len(Gets) = 14
    /\ Count("probe") = 4 /\ Count("status") = 2 /\ Count("down") = 3 /\ Count("up") = 5

-----------------------------------------------------------------------------
(* C19: a run remedies at most once and either by start or by restart: the  *)
(* start and restart code is entered only from the first status check; a    *)
(* run on the start branch never issues a down request and has issued       *)
(* exactly one up request once start is over; a run on the restart branch   *)
(* never is in start_openclash(); and once the remediation has returned no  *)
(* further up or down request is made, also after a failed re-probe or a    *)
(* final status of not running.                                             *)
InStart == pc = "start"

InRestart ==
    pc \in {"restart", "execute_request", "restart_after_stop", "restart_after_start",
            "restart_after_again", "restart_except"}

AfterRemediation ==
    pc \in {"reprobe_after_start", "restart_returned", "reprobe_after_restart",
            "final_status", "final_log", "end"}
    \/ (pc \in {"exited", "uncaught"} /\ Count("up") + Count("down") > 0)

OneRemediation ==
    /\ openclash_running = "F" =>
            /\ ~InRestart
            /\ restart_ok = "unset"
            /\ Count("down") = 0
            /\ Count("up") <= 1
            /\ AfterRemediation => Count("up") = 1
    /\ openclash_running = "T" =>
            /\ ~InStart
            /\ pc # "reprobe_after_start"
    /\ (InStart \/ InRestart) => (Count("status") = 1 /\ Count("probe") = MAX_RETRIES)

RemediationStep ==
    /\ (InStart' /\ ~InStart) => pc = "status"
    /\ (InRestart' /\ ~InRestart) => pc = "status"
    /\ AfterRemediation =>
            /\ AfterRemediation'
            /\ Len(SelectSeq(trace', LAMBDA e : e.op \in {"up", "down"}))
                    = Len(SelectSeq(trace, LAMBDA e : e.op \in {"up", "down"}))

C19_RemediationAtMostOnce == [](OneRemediation) /\ [][RemediationStep]_vars

(* The probe after a successful start failed and the run ended. *)
C19_Witness ==
    /\ openclash_running = "F"
    /\ pc = "end"
    /\ ReProbed
    /\ LastGet = GetEv("probe", "F")
    /\ Count("up") = 1
    /\ Count("down") = 0

====
